---- MODULE Spec2Model ----
(***************************************************************************)
(* State-machine model of the storefront client in frontend/src/App.js:    *)
(* the session store (AuthProvider), the route gate (ProtectedRoute and    *)
(* the route table of App), the login form, and the cart page (CartPage).  *)
(* The REST backend is the environment: it answers every request with a    *)
(* success or a failure, and its own data may change between requests.     *)
(*                                                                         *)
(* Spec      the session store, the router and the login form; the cart    *)
(*           page's own state is not touched by these steps.               *)
(* SpecCart  the cart page of a logged-in user: fetchCart, removeFromCart  *)
(*           and the backend's cart and catalog; the session is fixed.     *)
(* SpecTotal the cart page's subtotal over every row list and product map. *)
(* SpecAdmin the orders tab of the admin console (AdminPanel).             *)
(* SpecCatalog  the catalog page (ProductsPage) from its mount on, with    *)
(*           the navigation bar's cart count.                              *)
(* SpecAdd   add-to-cart over a loaded catalog page, any backend cart.     *)
(* SpecRegister  the registration form with the session store.            *)
(* SpecMutate  the cart page and the admin console, the backend changed    *)
(*           by this client only.                                          *)
(* SpecLoad  the load paths of the cart, catalog and orders views, every   *)
(*           request answered in the end.                                  *)
(***************************************************************************)
EXTENDS Integers, Sequences, FiniteSets, Bags, TLC

\* ------------------------------------------------------------------ bounds
MaxMe == 2          \* GET /auth/me requests in flight at once
MaxLogin == 1       \* POST /auth/login requests in flight at once
MaxRows == 2        \* rows in the backend cart
MaxFetch == 1       \* fetchCart invocations running at once
MaxDelete == 1      \* DELETE /cart/{id} requests in flight at once
MaxProductFetch == 2 \* GET /products requests in flight at once
MaxPost == 1        \* POST /cart requests in flight at once
MaxAdminReq == 2    \* admin console requests (PUT status, GET /admin/orders) in flight

\* ------------------------------------------------------------ value spaces
Null == "null"                              \* JS null / undefined / absent key
Users == {"alice", "bob"}                   \* identities the backend knows
Tokens == {"t1", "t2", "t3"}                \* access tokens the backend issues
UserOrNull == Users \cup {Null}
TokenOrNull == Tokens \cup {Null}

\* The identity the backend resolves a token to (GET /auth/me, POST /auth/login).
Identity(t) == IF t = "t2" THEN "bob" ELSE "alice"

\* user.role of an identity object; "norole" is an object without a role field.
RoleOf(u) == CASE u = "bob" -> "admin"
               [] u = "alice" -> "customer"
               [] OTHER -> Null

PublicRoutes == {"/", "/login", "/register"}
AuthRoutes == {"/products", "/cart", "/orders"}
AdminRoutes == {"/admin"}
Routes == PublicRoutes \cup AuthRoutes \cup AdminRoutes

VARIABLES
    user,           \* AuthProvider state `user`
    token,          \* AuthProvider state `token`
    localToken,     \* localStorage['token']
    authHeader,     \* axios.defaults.headers.common['Authorization'] (the token in it)
    mePending,      \* GET /auth/me in flight: token carried -> how many
    loginPending,   \* POST /auth/login in flight: credentials' user -> how many
    path,           \* the router's current location
    expired,        \* backend: tokens it no longer accepts
    issued,         \* requests to authenticated endpoints issued by the last step
    alertMsg,       \* alert() shown by the last step, or Null
    lastOp,         \* the last step taken: <<name, argument, argument>>
    intended,       \* the protected route an unauthenticated client last asked for
    loginDone,      \* a login() call has completed since the first page load
    cartItems,      \* CartPage state `cartItems`
    products,       \* CartPage state `products`: product id -> product (its price)
    cartLoading,    \* CartPage state `loading`
    fetches,        \* fetchCart invocations that have not returned yet
    deletes,        \* DELETE /cart/{id} in flight: id -> how many
    beCart,         \* backend: the user's cart rows
    beProducts,     \* backend: the products that exist
    nextId,         \* backend: the next cart-item identifier
    settled,        \* the product lookups of the fetchCart that returned last
    shownTotal,     \* the subtotal the cart page displays: <<n>>, or <<>> when none
    pageProducts,   \* ProductsPage state `products`: the products listed
    categories,     \* ProductsPage state `categories`
    selectedCategory, \* ProductsPage state `selectedCategory`, "" for All Products
    pageLoading,    \* ProductsPage state `loading`
    initData,       \* where the mount effect's initData() is waiting
    productFetches, \* fetchProducts invocations that have not returned: a bag
    posts,          \* POST /cart request bodies in flight
    cartCount,      \* Navigation state `cartCount`
    countPending,   \* GET /cart of fetchCartCount in flight: how many
    beCategories,   \* backend: the categories that exist
    catalogLog,     \* history of the catalog page since it mounted
    orders,         \* AdminPanel state `orders`: order id -> status
    puts,           \* PUT /admin/orders/{id}/status in flight: a bag
    orderFetches,   \* fetchOrders invocations that have not returned: a bag
    beOrders,       \* backend: order id -> status
    adminLog,       \* history of the admin console since it mounted
    registerForm,   \* RegisterPage: `loading`, where handleRegister waits, the email
    myOrders,       \* OrdersPage state `orders`
    ordersLoading,  \* OrdersPage state `loading`
    ordersPending   \* GET /orders of OrdersPage.fetchOrders in flight: how many

sessionVars == <<user, token, localToken, authHeader, mePending, loginPending,
                 path, expired, issued, alertMsg, lastOp, intended, loginDone>>

RECURSIVE SumOver(_, _)
SumOver(f, S) == IF S = {} THEN 0
                 ELSE LET x == CHOOSE y \in S : TRUE
                      IN f[x] + SumOver(f, S \ {x})

MeTotal == SumOver(mePending, Tokens)
LoginTotal == SumOver(loginPending, Users)

\* isAuthenticated: !!user
isAuthenticated(u) == u # Null

\* ProtectedRoute without the adminOnly branch.
ProtectedRoute_noAdminCheck(u, adminOnly) ==
    IF ~isAuthenticated(u) THEN "/login" ELSE "children"

\* ProtectedRoute: where the element leads; "children" when it renders them.
ProtectedRoute(u, adminOnly) ==
    IF ~isAuthenticated(u) THEN "/login"
    ELSE IF adminOnly /\ RoleOf(u) # "admin" THEN "/products"
    ELSE "children"

\* The route table of App: the location after rendering route r for user u once.
RouteElement(r, u) ==
    IF r \in PublicRoutes THEN r
    ELSE LET g == ProtectedRoute(u, r \in AdminRoutes)
         IN IF g = "children" THEN r ELSE g

\* <Navigate replace> is followed until a route renders (at most two hops).
Resolve(r, u) == RouteElement(RouteElement(r, u), u)

\* ------------------------------------------------------------ session store
\* The four cells the session store owns, as one record.
Session == [user |-> user, token |-> token, localToken |-> localToken,
            authHeader |-> authHeader]

Apply(s) == /\ user' = s.user
            /\ token' = s.token
            /\ localToken' = s.localToken
            /\ authHeader' = s.authHeader

\* login without the localStorage.setItem call.
login_noPersist(userData, userToken) ==
    [user |-> userData, token |-> userToken, localToken |-> localToken,
     authHeader |-> userToken]

\* login without the setUser call.
login_noUser(userData, userToken) ==
    [user |-> user, token |-> userToken, localToken |-> userToken,
     authHeader |-> userToken]

\* AuthProvider.login: setUser, setToken, localStorage.setItem, install header.
login(userData, userToken) ==
    [user |-> userData, token |-> userToken, localToken |-> userToken,
     authHeader |-> userToken]

\* logout that leaves the Authorization header installed.
logout_keepHeader ==
    [user |-> Null, token |-> Null, localToken |-> Null, authHeader |-> authHeader]

\* AuthProvider.logout: setUser(null), setToken(null), removeItem, delete header.
logout ==
    [user |-> Null, token |-> Null, localToken |-> Null, authHeader |-> Null]

\* token state initialised to null instead of the stored token.
initialState_noToken(stored) ==
    [user |-> Null, token |-> Null, localToken |-> stored, authHeader |-> Null]

\* A page load that consumes the stored token: the key is gone afterwards.
initialState_dropStored(stored) ==
    [user |-> Null, token |-> stored, localToken |-> Null, authHeader |-> Null]

\* useState(null) / useState(localStorage.getItem('token')) on a fresh page;
\* axios.defaults starts without an Authorization header.
initialState(stored) ==
    [user |-> Null, token |-> stored, localToken |-> stored, authHeader |-> Null]

\* useEffect(..., [token]) runs on mount and whenever token changed, and acts
\* only on a truthy token.
effectRuns(oldToken, newToken, mount) ==
    newToken # Null /\ (mount \/ newToken # oldToken)

\* The effect's synchronous part: install the header for the token.
tokenEffect(s, oldToken, mount) ==
    IF effectRuns(oldToken, s.token, mount)
    THEN [s EXCEPT !.authHeader = s.token]
    ELSE s

\* The GET /auth/me the effect issues, as an increment of the in-flight bag.
meIssued(pending, s, oldToken, mount) ==
    IF effectRuns(oldToken, s.token, mount)
    THEN [pending EXCEPT ![s.token] = @ + 1]
    ELSE pending

\* The requests to authenticated endpoints, each with the header it carries.
Req(ep, hdr) == [ep |-> ep, hdr |-> hdr]

meRequest(s, oldToken, mount) ==
    IF effectRuns(oldToken, s.token, mount)
    THEN {Req("GET /auth/me", s.token)}
    ELSE {}

\* Navigation.fetchCartCount, run by useEffect(..., [user]) when setUser stored
\* a new object: it requests the cart only for a truthy user.
fetchCartCount(u, hdr) == IF u # Null THEN {Req("GET /cart", hdr)} ELSE {}

\* What a page requests from authenticated endpoints when it mounts.
pageRequests(r, hdr) ==
    CASE r = "/cart" -> {Req("GET /cart", hdr)}
      [] r = "/orders" -> {Req("GET /orders", hdr)}
      [] r = "/admin" -> {Req("GET /admin/orders", hdr)}
      [] OTHER -> {}

\* A page mounts when the location changes to it.
mountRequests(old, new, hdr) == IF new # old THEN pageRequests(new, hdr) ELSE {}

ZeroMe == [t \in Tokens |-> 0]
ZeroLogin == [c \in Users |-> 0]

\* The protected route a client without identity asked for, when it is sent to
\* the login page; Null otherwise.
Redirected(r, u) == IF u = Null /\ r \notin PublicRoutes THEN r ELSE Null


\* ---------------------------------------------------------------- cart page
ProductIds == {"p1", "p2"}
Price(p) == IF p = "p1" THEN 3 ELSE 5         \* product.price as the backend serves it
ItemIds == 1..(MaxRows + 1)                   \* identifiers the backend hands out
Quantities == {1, 2}                          \* item.quantity

Row(i, p, q) == [id |-> i, product_id |-> p, quantity |-> q]
EmptyMap == [p \in {} |-> 0]
NoneSettled == [items |-> <<>>, status |-> <<>>]
ZeroDelete == [i \in ItemIds |-> 0]
DeleteTotal == SumOver(deletes, ItemIds)

\* The carts a backend holds: rows 1..n in creation order.
RECURSIVE CartsOfLen(_)
CartsOfLen(n) ==
    IF n = 0 THEN {<<>>}
    ELSE {Append(c, Row(n, p, q)) : c \in CartsOfLen(n - 1), p \in ProductIds,
                                   q \in Quantities}
Carts == UNION {CartsOfLen(n) : n \in 0..MaxRows}

\* getTotalPrice with the quantity factor left out.
RECURSIVE getTotalPrice_noQuantity(_, _)
getTotalPrice_noQuantity(items, prods) ==
    IF items = <<>> THEN 0
    ELSE LET item == items[Len(items)]
             rest == SubSeq(items, 1, Len(items) - 1)
         IN getTotalPrice_noQuantity(rest, prods)
              + (IF item.product_id \in DOMAIN prods THEN prods[item.product_id] ELSE 0)

\* CartPage.getTotalPrice: cartItems.reduce((total, item) => total +
\* (product ? product.price * item.quantity : 0), 0), a left fold.
RECURSIVE getTotalPrice(_, _)
getTotalPrice(items, prods) ==
    IF items = <<>> THEN 0
    ELSE LET item == items[Len(items)]
             rest == SubSeq(items, 1, Len(items) - 1)
         IN getTotalPrice(rest, prods)
              + (IF item.product_id \in DOMAIN prods
                 THEN prods[item.product_id] * item.quantity
                 ELSE 0)

\* The rows the cart list renders: `if (!product) return null` drops the rest.
renderedIds(items, prods) ==
    {items[i].id : i \in {j \in 1..Len(items) : items[j].product_id \in DOMAIN prods}}

\* The Order Summary's Subtotal: rendered once loading is over and the cart
\* has rows, from getTotalPrice().
subtotalShown(items, prods, loading) ==
    IF loading \/ items = <<>> THEN <<>> ELSE <<getTotalPrice(items, prods)>>

\* The re-render that follows every state change of the cart page.
RenderCart == shownTotal' = subtotalShown(cartItems', products', cartLoading')

\* productMap[res.data.id] = res.data over the lookups of one fetchCart.
productMap(items) ==
    [p \in {items[i].product_id : i \in 1..Len(items)} |-> Price(p)]

RemoveAt(seq, k) == SubSeq(seq, 1, k - 1) \o SubSeq(seq, k + 1, Len(seq))

\* A fetchCart invocation waiting for its GET /cart.
NewFetch == [phase |-> "sent", items |-> <<>>, status |-> <<>>]

\* The cart page before it is mounted.
CartIdle ==
    /\ cartItems = <<>>
    /\ products = EmptyMap
    /\ cartLoading = TRUE
    /\ fetches = <<>>
    /\ deletes = ZeroDelete
    /\ beCart = <<>>
    /\ beProducts = ProductIds
    /\ nextId = 1
    /\ settled = NoneSettled
    /\ shownTotal = <<>>

\* ----------------------------------------- catalog page and admin console
Categories == {"c1", "c2"}
CategoryOf(p) == IF p = "p1" THEN "c1" ELSE "c2"     \* product.category_id
Stock(p) == IF p = "p1" THEN 2 ELSE 0                \* product.stock_quantity
AllProducts == ""                                    \* selectedCategory === ''

OrderIds == {1}
Statuses == {"pending", "confirmed", "preparing", "shipped", "delivered", "cancelled"}
NoOrders == [o \in {} |-> Null]

catalogVars == <<pageProducts, categories, selectedCategory, pageLoading, initData,
                 productFetches, posts, cartCount, countPending, beCategories,
                 catalogLog>>
adminVars == <<orders, puts, orderFetches, beOrders, adminLog>>
registerVars == <<registerForm>>
ordersVars == <<myOrders, ordersLoading, ordersPending>>
pageVars == <<catalogVars, adminVars, registerVars, ordersVars>>

NoCatalogLog == [getFailed |-> FALSE, selected |-> FALSE, seeded |-> FALSE]
NoAdminLog == [getFailed |-> FALSE, updated |-> FALSE]

\* The catalog page before it is mounted.
CatalogIdle ==
    /\ pageProducts = {}
    /\ categories = {}
    /\ selectedCategory = AllProducts
    /\ pageLoading = TRUE
    /\ initData = "unmounted"
    /\ productFetches = EmptyBag
    /\ posts = <<>>
    /\ cartCount = 0
    /\ countPending = 0
    /\ beCategories = Categories
    /\ catalogLog = NoCatalogLog

\* RegisterPage with no submission under way (useState(false) of loading), and
\* OrdersPage before it is mounted.
FormIdle == [loading |-> FALSE, stage |-> "idle", email |-> Null]
RegisterIdle ==
    /\ registerForm = FormIdle
    /\ myOrders = <<>>
    /\ ordersLoading = TRUE
    /\ ordersPending = 0

\* The admin console before it is mounted.
AdminIdle ==
    /\ orders = NoOrders
    /\ puts = EmptyBag
    /\ orderFetches = EmptyBag
    /\ beOrders = [o \in OrderIds |-> "pending"]
    /\ adminLog = NoAdminLog

cartVars == <<cartItems, products, cartLoading, fetches, deletes, beCart,
              beProducts, nextId, settled, shownTotal>>

\* ------------------------------------------------------------------ actions
\* The first page load at URL r with whatever token an earlier visit stored.
LoadPage(stored, r) ==
    LET s == tokenEffect(initialState(stored), Null, TRUE)
    IN /\ user = s.user
       /\ token = s.token
       /\ localToken = s.localToken
       /\ authHeader = s.authHeader
       /\ mePending = meIssued(ZeroMe, s, Null, TRUE)
       /\ loginPending = ZeroLogin
       /\ path = Resolve(r, s.user)
       /\ issued = meRequest(s, Null, TRUE)
       /\ alertMsg = Null
       /\ intended = Redirected(r, s.user)

\* The page is loaded again at URL r (reload, or a URL typed into the browser):
\* component state is rebuilt from localStorage, pending callbacks are gone.
Reload(r) ==
    LET s == tokenEffect(initialState(localToken), Null, TRUE)
    IN /\ Apply(s)
       /\ mePending' = meIssued(ZeroMe, s, Null, TRUE)
       /\ loginPending' = ZeroLogin
       /\ path' = Resolve(r, s.user)
       /\ issued' = meRequest(s, Null, TRUE)
       /\ alertMsg' = Null
       /\ intended' = Redirected(r, s.user)
       /\ lastOp' = <<"reload", r, Null>>
       /\ UNCHANGED <<cartVars, pageVars>>
       /\ UNCHANGED <<expired, loginDone>>

\* Client-side navigation (navigate(), history back/forward) to route r.
Navigate(r) ==
    /\ r # path
    /\ path' = Resolve(r, user)
    /\ issued' = mountRequests(path, path', authHeader)
    /\ alertMsg' = Null
    /\ intended' = Redirected(r, user)
    /\ lastOp' = <<"navigate", r, Null>>
    /\ UNCHANGED <<cartVars, pageVars>>
    /\ UNCHANGED <<user, token, localToken, authHeader, mePending, loginPending, expired, loginDone>>

\* LoginPage.handleLogin up to its await: POST /auth/login for user c's credentials.
HandleLogin(c) ==
    /\ path = "/login"
    /\ LoginTotal < MaxLogin
    /\ loginPending' = [loginPending EXCEPT ![c] = @ + 1]
    /\ issued' = {}
    /\ alertMsg' = Null
    /\ lastOp' = <<"handleLogin", c, Null>>
    /\ UNCHANGED <<cartVars, pageVars>>
    /\ UNCHANGED <<user, token, localToken, authHeader, mePending, path, expired, intended, loginDone>>

\* handleLogin after a successful response {user: c, access_token: t}:
\* login(user, token); navigate('/products'); then the effects of the render.
LoginOk(c, t) ==
    /\ loginPending[c] > 0
    /\ t \notin expired
    /\ Identity(t) = c
    /\ effectRuns(token, t, FALSE) => MeTotal < MaxMe
    /\ LET s0 == login(c, t)
           s == tokenEffect(s0, token, FALSE)
       IN /\ Apply(s)
          /\ mePending' = meIssued(mePending, s, token, FALSE)
          /\ path' = Resolve("/products", s.user)
          /\ issued' = fetchCartCount(s0.user, s0.authHeader)
                         \cup mountRequests(path, path', s0.authHeader)
                         \cup meRequest(s, token, FALSE)
    /\ loginPending' = [loginPending EXCEPT ![c] = @ - 1]
    /\ alertMsg' = Null
    /\ lastOp' = <<"login", c, t>>
    /\ UNCHANGED <<cartVars, pageVars>>
    /\ loginDone' = TRUE
    /\ UNCHANGED <<expired, intended>>

\* handleLogin's catch: the request failed (bad credentials, network).
LoginFail(c) ==
    /\ loginPending[c] > 0
    /\ loginPending' = [loginPending EXCEPT ![c] = @ - 1]
    /\ issued' = {}
    /\ alertMsg' = "Login failed"
    /\ lastOp' = <<"loginFail", c, Null>>
    /\ UNCHANGED <<cartVars, pageVars>>
    /\ UNCHANGED <<user, token, localToken, authHeader, mePending, path, expired, intended, loginDone>>

\* The Logout button of Navigation, rendered only for a truthy user.
ClickLogout ==
    /\ user # Null
    /\ Apply(tokenEffect(logout, token, FALSE))
    /\ path' = Resolve(path, Null)
    /\ issued' = mountRequests(path, path', Null)
    /\ alertMsg' = Null
    /\ lastOp' = <<"logout", Null, token>>
    /\ UNCHANGED <<cartVars, pageVars>>
    /\ UNCHANGED <<mePending, loginPending, expired, intended, loginDone>>

\* .then(response => setUser(response.data)) of a GET /auth/me sent with token t.
MeOk(t) ==
    /\ mePending[t] > 0
    /\ t \notin expired
    /\ mePending' = [mePending EXCEPT ![t] = @ - 1]
    /\ user' = Identity(t)
    /\ path' = Resolve(path, user')
    /\ issued' = fetchCartCount(user', authHeader) \cup mountRequests(path, path', authHeader)
    /\ alertMsg' = Null
    /\ lastOp' = <<"meOk", t, Null>>
    /\ UNCHANGED <<cartVars, pageVars>>
    /\ UNCHANGED <<token, localToken, authHeader, loginPending, expired, intended, loginDone>>

\* .catch(() => logout()) of a GET /auth/me sent with token t.
MeFail(t) ==
    /\ mePending[t] > 0
    /\ mePending' = [mePending EXCEPT ![t] = @ - 1]
    /\ Apply(tokenEffect(logout, token, FALSE))
    /\ path' = Resolve(path, Null)
    /\ issued' = mountRequests(path, path', Null)
    /\ alertMsg' = Null
    /\ lastOp' = <<"meFail", t, token>>
    /\ UNCHANGED <<cartVars, pageVars>>
    /\ UNCHANGED <<loginPending, expired, intended, loginDone>>

\* Backend: token t stops being accepted (expiry, revocation).
Expire(t) ==
    /\ t \notin expired
    /\ expired' = expired \cup {t}
    /\ issued' = {}
    /\ alertMsg' = Null
    /\ lastOp' = <<"expire", t, Null>>
    /\ UNCHANGED <<cartVars, pageVars>>
    /\ UNCHANGED <<user, token, localToken, authHeader, mePending, loginPending, path, intended, loginDone>>

vars == <<sessionVars, cartVars, pageVars>>

Init ==
    /\ \E stored \in TokenOrNull, r \in Routes :
          /\ LoadPage(stored, r)
          /\ lastOp = <<"init", r, Null>>
    /\ expired = {}
    /\ loginDone = FALSE
    /\ CartIdle
    /\ CatalogIdle
    /\ AdminIdle
    /\ RegisterIdle

Next ==
    \/ \E r \in Routes : Reload(r)
    \/ \E r \in Routes : Navigate(r)
    \/ \E c \in Users : HandleLogin(c)
    \/ \E c \in Users, t \in Tokens : LoginOk(c, t)
    \/ \E c \in Users : LoginFail(c)
    \/ ClickLogout
    \/ \E t \in Tokens : MeOk(t)
    \/ \E t \in Tokens : MeFail(t)
    \/ \E t \in Tokens : Expire(t)

Spec == Init /\ [][Next]_vars

\* ------------------------------------------------------------ session claims
AllNull == user = Null /\ token = Null /\ localToken = Null /\ authHeader = Null

\* C1: immediately after login(u, t) the in-memory user is u, the in-memory
\* token and the durable token are t, and the default credential is Bearer t.
C1_LoginInstallsSession ==
    lastOp[1] = "login" =>
        /\ user = lastOp[2]
        /\ token = lastOp[3]
        /\ localToken = lastOp[3]
        /\ authHeader = lastOp[3]

\* login(bob, t2) ran while a request of an earlier session was still pending.
C1_Witness ==
    /\ lastOp = <<"login", "bob", "t2">>
    /\ mePending["t1"] > 0
    /\ user = "bob" /\ localToken = "t2"

\* C2: immediately after logout() (the button, or the /auth/me failure
\* handler, also when already logged out) user, token, durable token and
\* default credential are all absent.
C2_LogoutClearsSession ==
    lastOp[1] \in {"logout", "meFail"} => AllNull

\* logout() ran from the failure handler when the session was already cleared.
C2_Witness ==
    /\ lastOp[1] = "meFail"
    /\ lastOp[3] = Null
    /\ AllNull

\* C3: a page load with a durable token installs the credential and issues
\* one GET /auth/me, without one it issues none and the user stays null; a
\* successful response makes the returned identity the user, a failed one
\* performs a full logout, and neither shows an error.
C3_Initialization ==
    /\ lastOp[1] \in {"init", "reload"} =>
          /\ user = Null
          /\ token = localToken
          /\ IF localToken # Null
             THEN /\ authHeader = localToken
                  /\ MeTotal = 1
                  /\ mePending[localToken] = 1
                  /\ issued = {Req("GET /auth/me", localToken)}
             ELSE /\ authHeader = Null
                  /\ MeTotal = 0
                  /\ issued = {}
    /\ lastOp[1] = "meOk" => user = Identity(lastOp[2]) /\ alertMsg = Null
    /\ lastOp[1] = "meFail" => AllNull /\ alertMsg = Null

\* A reload found a durable token and its revalidation is in flight.
C3_Witness ==
    /\ lastOp[1] = "reload"
    /\ localToken = "t1"
    /\ mePending["t1"] = 1
    /\ authHeader = "t1"

\* C4: after a login succeeded, whenever a session is active and no
\* /auth/me request is in flight, the user is the identity the backend
\* resolves the current token to.
C4_IdentityMatchesToken ==
    (/\ loginDone
     /\ user # Null
     /\ token # Null
     /\ token \notin expired
     /\ MeTotal = 0) => user = Identity(token)

\* C5: every request to an authenticated endpoint is issued with the default
\* credential installed and carrying the current session token.
C5_AuthenticatedCallsCarryToken ==
    \A q \in issued : q.hdr # Null /\ q.hdr = token

\* C6: the gate's outcome as the table over (isAuthenticated, role, capability).
Capability(r) == CASE r = "/admin" -> "admin"
                   [] r \in {"/products", "/cart", "/orders"} -> "authenticated"
                   [] r \in {"/", "/login", "/register"} -> "public"

GateTable(auth, role, cap) ==
    CASE cap = "public" -> "render"
      [] cap # "public" /\ ~auth -> "redirect-to-login"
      [] cap = "admin" /\ auth /\ role # "admin" -> "redirect-to-default"
      [] OTHER -> "render"

Destination(outcome, r) ==
    CASE outcome = "render" -> r
      [] outcome = "redirect-to-login" -> "/login"
      [] outcome = "redirect-to-default" -> "/products"

C6_GateIsTheTable ==
    /\ \A r \in Routes, u \in UserOrNull \cup {"norole"} :
          RouteElement(r, u) = Destination(GateTable(u # Null, RoleOf(u), Capability(r)), r)
    /\ lastOp[1] \in {"init", "reload", "navigate"} =>
          path = Destination(GateTable(user # Null, RoleOf(user), Capability(lastOp[2])),
                             lastOp[2])

\* A customer asked for /admin and was sent to the catalog.
C6_Witness ==
    /\ lastOp = <<"navigate", "/admin", Null>>
    /\ user = "alice"
    /\ path = "/products"

\* C7: a client without identity asking for /products, /cart or /orders lands
\* on /login, and after a successful login from there the route it asked for
\* renders.
C7_LoginUnlocksIntendedRoute ==
    /\ (lastOp[1] \in {"init", "reload", "navigate"} /\ user = Null
            /\ lastOp[2] \in AuthRoutes) =>
          path = "/login" /\ intended = lastOp[2]
    /\ (lastOp[1] = "login" /\ intended \in AuthRoutes) =>
          /\ RouteElement(intended, user) = intended
          /\ Resolve(intended, user) = intended

\* Redirected from /cart, the client logged in, and /cart now renders.
C7_Witness ==
    /\ lastOp[1] = "login"
    /\ intended = "/cart"
    /\ RouteElement("/cart", user) = "/cart"

\* --------------------------------------------------------- cart page actions
sessionCore == <<user, token, localToken, authHeader, mePending, loginPending,
                 path, expired, intended, loginDone>>

AllOk(status) == \A i \in 1..Len(status) : status[i] = "ok"

\* Backend: the GET /cart of invocation k is answered from the rows held now.
ServeCart(k) ==
    /\ fetches[k].phase = "sent"
    /\ fetches' = [fetches EXCEPT ![k] = [@ EXCEPT !.phase = "answered", !.items = beCart]]
    /\ issued' = {}
    /\ alertMsg' = Null
    /\ lastOp' = <<"backend", "GET /cart", Null>>
    /\ settled' = NoneSettled
    /\ UNCHANGED <<sessionCore, pageVars, cartItems, products, cartLoading, deletes, beCart,
                   beProducts, nextId>>
    /\ RenderCart

\* fetchCart after its GET /cart succeeded: setCartItems(response.data), then one
\* GET /products/{id} per row; with no rows Promise.all resolves at once.
CartOk(k) ==
    /\ fetches[k].phase = "answered"
    /\ LET data == fetches[k].items
       IN /\ cartItems' = data
          /\ IF data = <<>>
             THEN /\ products' = productMap(data)
                  /\ cartLoading' = FALSE
                  /\ fetches' = RemoveAt(fetches, k)
                  /\ settled' = [items |-> data, status |-> <<>>]
                  /\ lastOp' = <<"fetchCartDone", Null, Null>>
             ELSE /\ fetches' = [fetches EXCEPT ![k] =
                        [phase |-> "products", items |-> data,
                         status |-> [i \in 1..Len(data) |-> "pending"]]]
                  /\ settled' = NoneSettled
                  /\ lastOp' = <<"cartOk", Null, Null>>
                  /\ UNCHANGED <<products, cartLoading>>
    /\ issued' = {}
    /\ alertMsg' = Null
    /\ UNCHANGED <<sessionCore, pageVars, deletes, beCart, beProducts, nextId>>
    /\ RenderCart

\* fetchCart's catch after its GET /cart failed; then setLoading(false).
CartFail(k) ==
    /\ fetches[k].phase \in {"sent", "answered"}
    /\ fetches' = RemoveAt(fetches, k)
    /\ cartLoading' = FALSE
    /\ settled' = NoneSettled
    /\ issued' = {}
    /\ alertMsg' = Null
    /\ lastOp' = <<"cartFailed", Null, Null>>
    /\ UNCHANGED <<sessionCore, pageVars, cartItems, products, deletes, beCart, beProducts, nextId>>
    /\ RenderCart

\* The lookup of row i's product succeeds; when it was the last one Promise.all
\* resolves: setProducts(productMap); setLoading(false).
ProductOk(k, i) ==
    /\ fetches[k].phase = "products"
    /\ fetches[k].status[i] = "pending"
    /\ fetches[k].items[i].product_id \in beProducts
    /\ LET f == fetches[k]
           st == [f.status EXCEPT ![i] = "ok"]
       IN IF AllOk(st)
          THEN /\ products' = productMap(f.items)
               /\ cartLoading' = FALSE
               /\ fetches' = RemoveAt(fetches, k)
               /\ settled' = [items |-> f.items, status |-> st]
               /\ lastOp' = <<"fetchCartDone", Null, Null>>
          ELSE /\ fetches' = [fetches EXCEPT ![k] = [@ EXCEPT !.status = st]]
               /\ settled' = NoneSettled
               /\ lastOp' = <<"productOk", Null, Null>>
               /\ UNCHANGED <<products, cartLoading>>
    /\ issued' = {}
    /\ alertMsg' = Null
    /\ UNCHANGED <<sessionCore, pageVars, cartItems, deletes, beCart, beProducts, nextId>>
    /\ RenderCart

\* The lookup of row i's product fails (deleted product, network): Promise.all
\* rejects, fetchCart's catch logs it; then setLoading(false).
ProductFail(k, i) ==
    /\ fetches[k].phase = "products"
    /\ fetches[k].status[i] = "pending"
    /\ settled' = [items |-> fetches[k].items,
                   status |-> [fetches[k].status EXCEPT ![i] = "failed"]]
    /\ fetches' = RemoveAt(fetches, k)
    /\ cartLoading' = FALSE
    /\ issued' = {}
    /\ alertMsg' = Null
    /\ lastOp' = <<"lookupFailed", Null, Null>>
    /\ UNCHANGED <<sessionCore, pageVars, cartItems, products, deletes, beCart, beProducts, nextId>>
    /\ RenderCart

\* removeFromCart(itemId) up to its await, from the Remove button of a rendered row.
RemoveFromCart(id) ==
    /\ ~cartLoading
    /\ id \in renderedIds(cartItems, products)
    /\ DeleteTotal < MaxDelete
    /\ deletes' = [deletes EXCEPT ![id] = @ + 1]
    /\ issued' = {Req("DELETE /cart/{id}", authHeader)}
    /\ alertMsg' = Null
    /\ lastOp' = <<"removeFromCart", id, Null>>
    /\ settled' = NoneSettled
    /\ UNCHANGED <<sessionCore, pageVars, cartItems, products, cartLoading, fetches, beCart,
                   beProducts, nextId>>
    /\ RenderCart

\* removeFromCart after the DELETE succeeded: await fetchCart().
DeleteOk(id) ==
    /\ deletes[id] > 0
    /\ Len(fetches) < MaxFetch
    /\ deletes' = [deletes EXCEPT ![id] = @ - 1]
    /\ beCart' = SelectSeq(beCart, LAMBDA row : row.id # id)
    /\ fetches' = Append(fetches, NewFetch)
    /\ issued' = {Req("GET /cart", authHeader)}
    /\ alertMsg' = Null
    /\ lastOp' = <<"deleteOk", id, getTotalPrice(cartItems, products)>>
    /\ settled' = NoneSettled
    /\ UNCHANGED <<sessionCore, pageVars, cartItems, products, cartLoading, beProducts, nextId>>
    /\ RenderCart

\* removeFromCart's catch after the DELETE failed: alert, nothing else.
DeleteFail(id) ==
    /\ deletes[id] > 0
    /\ deletes' = [deletes EXCEPT ![id] = @ - 1]
    /\ issued' = {}
    /\ alertMsg' = "Error removing item"
    /\ lastOp' = <<"deleteFail", id, getTotalPrice(cartItems, products)>>
    /\ settled' = NoneSettled
    /\ UNCHANGED <<sessionCore, pageVars, cartItems, products, cartLoading, fetches, beCart,
                   beProducts, nextId>>
    /\ RenderCart

BackendStep ==
    /\ issued' = {}
    /\ alertMsg' = Null
    /\ lastOp' = <<"backend", "data", Null>>
    /\ settled' = NoneSettled
    /\ UNCHANGED <<sessionCore, pageVars, cartItems, products, cartLoading, fetches, deletes>>
    /\ RenderCart

\* Backend: a POST /cart creates a row with quantity 1.
BeAdd(p) ==
    /\ p \in beProducts
    /\ Len(beCart) < MaxRows
    /\ nextId \in ItemIds
    /\ beCart' = Append(beCart, Row(nextId, p, 1))
    /\ nextId' = nextId + 1
    /\ UNCHANGED beProducts
    /\ BackendStep

\* Backend: a POST /cart for a product already in the cart raises the row's quantity.
BeBump(k) ==
    /\ k \in 1..Len(beCart)
    /\ beCart[k].product_id \in beProducts
    /\ beCart[k].quantity + 1 \in Quantities
    /\ beCart' = [beCart EXCEPT ![k] = [@ EXCEPT !.quantity = @ + 1]]
    /\ UNCHANGED <<beProducts, nextId>>
    /\ BackendStep

\* Backend: a row is removed by another session of the same user.
BeRemove(k) ==
    /\ k \in 1..Len(beCart)
    /\ beCart' = RemoveAt(beCart, k)
    /\ UNCHANGED <<beProducts, nextId>>
    /\ BackendStep

\* Backend: a product is deleted from the catalog; cart rows keep referring to it.
BeDeleteProduct(p) ==
    /\ p \in beProducts
    /\ beProducts' = beProducts \ {p}
    /\ UNCHANGED <<beCart, nextId>>
    /\ BackendStep

\* CartPage mounted for a logged-in user: useEffect(() => fetchCart(), []).
InitCart ==
    /\ user = "alice" /\ token = "t1" /\ localToken = "t1" /\ authHeader = "t1"
    /\ mePending = ZeroMe /\ loginPending = ZeroLogin
    /\ path = "/cart" /\ expired = {} /\ intended = Null /\ loginDone = TRUE
    /\ issued = pageRequests("/cart", "t1")
    /\ alertMsg = Null
    /\ lastOp = <<"mount", "/cart", Null>>
    /\ cartItems = <<>>
    /\ products = EmptyMap
    /\ cartLoading = TRUE
    /\ fetches = <<NewFetch>>
    /\ deletes = ZeroDelete
    /\ beCart \in Carts
    /\ beProducts = ProductIds
    /\ nextId = Len(beCart) + 1
    /\ settled = NoneSettled
    /\ shownTotal = <<>>
    /\ CatalogIdle
    /\ AdminIdle
    /\ RegisterIdle

NextCart ==
    \/ \E k \in 1..Len(fetches) : ServeCart(k)
    \/ \E k \in 1..Len(fetches) : CartOk(k)
    \/ \E k \in 1..Len(fetches) : CartFail(k)
    \/ \E k \in 1..Len(fetches) : \E i \in 1..Len(fetches[k].items) : ProductOk(k, i)
    \/ \E k \in 1..Len(fetches) : \E i \in 1..Len(fetches[k].items) : ProductFail(k, i)
    \/ \E id \in ItemIds : RemoveFromCart(id)
    \/ \E id \in ItemIds : DeleteOk(id)
    \/ \E id \in ItemIds : DeleteFail(id)
    \/ \E p \in ProductIds : BeAdd(p)
    \/ \E k \in 1..MaxRows : BeBump(k)
    \/ \E k \in 1..MaxRows : BeRemove(k)
    \/ \E p \in ProductIds : BeDeleteProduct(p)

SpecCart == InitCart /\ [][NextCart]_vars

\* ------------------------------------------------- cart subtotal, all inputs
ProductMaps == {[p \in S |-> Price(p)] : S \in SUBSET ProductIds}

\* The cart page after loading, with any rows and any loaded product map.
InitTotal ==
    /\ user = "alice" /\ token = "t1" /\ localToken = "t1" /\ authHeader = "t1"
    /\ mePending = ZeroMe /\ loginPending = ZeroLogin
    /\ path = "/cart" /\ expired = {} /\ intended = Null /\ loginDone = TRUE
    /\ issued = {}
    /\ alertMsg = Null
    /\ lastOp = <<"render", Null, Null>>
    /\ cartItems \in Carts
    /\ products \in ProductMaps
    /\ cartLoading = FALSE
    /\ fetches = <<>>
    /\ deletes = ZeroDelete
    /\ beCart = cartItems
    /\ beProducts = ProductIds
    /\ nextId = Len(beCart) + 1
    /\ settled = NoneSettled
    /\ shownTotal = subtotalShown(cartItems, products, cartLoading)
    /\ CatalogIdle
    /\ AdminIdle
    /\ RegisterIdle

\* setCartItems(response.data) with the same rows in another order f.
ReceiveReordered(f) ==
    /\ cartItems' = [i \in 1..Len(cartItems) |-> cartItems[f[i]]]
    /\ cartItems' # cartItems
    /\ issued' = {}
    /\ alertMsg' = Null
    /\ lastOp' = <<"render", "reordered", Null>>
    /\ UNCHANGED <<sessionCore, pageVars, products, cartLoading, fetches, deletes, beCart,
                   beProducts, nextId, settled>>
    /\ RenderCart

NextTotal == \E f \in Permutations(1..Len(cartItems)) : ReceiveReordered(f)

SpecTotal == InitTotal /\ [][NextTotal]_vars

\* --------------------------------------------------------------- cart claims
QuantityOf(items, p) ==
    LET rows == {i \in 1..Len(items) : items[i].product_id = p}
        q == [i \in rows |-> items[i].quantity]
    IN SumOver(q, rows)

\* Sum of price x quantity over the rows whose product is a key of the map,
\* grouped by product.
ResolvableTotal(items, prods) ==
    LET part == [p \in DOMAIN prods |-> prods[p] * QuantityOf(items, p)]
    IN SumOver(part, DOMAIN prods)

Permuted(items, f) == [i \in 1..Len(items) |-> items[f[i]]]

\* C8: getTotalPrice() is the sum of price x quantity over exactly the rows
\* whose product is in the loaded map, 0 for an empty cart, the same for every
\* order of the rows, and rows of one product add up their quantities.
C8_TotalIsResolvableSum ==
    LET total == getTotalPrice(cartItems, products)
    IN /\ total = ResolvableTotal(cartItems, products)
       /\ shownTotal # <<>> => shownTotal[1] = ResolvableTotal(cartItems, products)
       /\ cartItems = <<>> => total = 0
       /\ \A f \in Permutations(1..Len(cartItems)) :
             getTotalPrice(Permuted(cartItems, f), products) = total

\* Two rows of product p1, quantities 1 and 2, received in a new order: the
\* subtotal shown is 3 x (1 + 2).
C8_Witness ==
    /\ lastOp[2] = "reordered"
    /\ Len(cartItems) = 2
    /\ cartItems[1].product_id = "p1" /\ cartItems[2].product_id = "p1"
    /\ cartItems[1].quantity = 1 /\ cartItems[2].quantity = 2
    /\ "p1" \in DOMAIN products
    /\ shownTotal = <<9>>

\* C9: when one row's product lookup fails, only that row is dropped and adds
\* 0, no error is shown, and every row whose lookup succeeded is rendered and
\* adds its price x quantity.
C9_OnlyFailedRowDropped ==
    lastOp[1] = "lookupFailed" =>
        LET ok == {i \in 1..Len(settled.items) : settled.status[i] = "ok"}
            due == [i \in ok |-> Price(settled.items[i].product_id)
                                   * settled.items[i].quantity]
        IN /\ alertMsg = Null
           /\ \A i \in ok : settled.items[i].id \in renderedIds(cartItems, products)
           /\ getTotalPrice(cartItems, products) >= SumOver(due, ok)

\* C10: every removeFromCart(itemId) is followed by a GET /cart refetch
\* whatever the DELETE's outcome, and the total of the rows still shown is
\* what it was before the response.
C10_RemoveAlwaysRefetches ==
    lastOp[1] \in {"deleteOk", "deleteFail"} =>
        /\ Req("GET /cart", authHeader) \in issued
        /\ getTotalPrice(cartItems, products) = lastOp[3]

\* ------------------------------------------------ error and session claims
\* C14: every failed request other than the /auth/me revalidation, reads
\* included, is shown to the user as a blocking message.
C14_FailuresAreAlerted ==
    lastOp[1] \in {"cartFailed", "lookupFailed", "deleteFail"} => alertMsg # Null

\* C18: whenever the user is non-null, the token is non-null, the durable
\* token equals it and the Authorization header for it is installed.
C18_UserImpliesToken ==
    user # Null => (token # Null /\ localToken = token /\ authHeader = token)

\* C19: a /auth/me response acts on the session only when its request carried
\* the token that is current: a failure for an earlier token does not clear
\* a later login's session, a success for an earlier token installs no
\* identity after a logout.
C19_StaleResponsesIgnored ==
    /\ (lastOp[1] = "meFail" /\ lastOp[3] # Null /\ lastOp[2] # lastOp[3]) =>
          token = lastOp[3]
    /\ (lastOp[1] = "meOk" /\ token = Null) => user = Null

\* ------------------------------------------------------------ admin console
\* The orders tab of AdminPanel, for an administrator on /admin.  The backend
\* applies a status update when it accepts the PUT; it answers a GET
\* /admin/orders from the orders it holds at that moment, and the response
\* reaches the client in a later step.
adminFrame == <<sessionCore, cartVars, catalogVars, registerVars, ordersVars>>

AdminInFlight == BagCardinality(puts) + BagCardinality(orderFetches)

\* A <select> that offers nothing else once the order is delivered or cancelled.
statusOptions_terminal(s) ==
    IF s \in {"delivered", "cancelled"} THEN {s} ELSE Statuses

\* The options of an order's status <select>: the same six for every order.
statusOptions(s) == Statuses

\* axios.put(`${API}/admin/orders/${orderId}/status`, null, {params: {status}})
updateRequest(orderId, status) == [id |-> orderId, status |-> status]

\* A fetchOrders invocation waiting for its GET /admin/orders; forUpdate marks
\* the one updateOrderStatus awaits.
NewOrderFetch(forUpdate) == [phase |-> "sent", data |-> NoOrders, forUpdate |-> forUpdate]

\* What updateOrderStatus does after the PUT resolved, and in its catch.
\* A success path that also patches the order's status in the displayed list.
updateThen_localPatch == [refetch |-> TRUE, alert |-> Null, patch |-> TRUE]

updateThen == [refetch |-> TRUE, alert |-> Null, patch |-> FALSE]

\* A catch that refetches the list as the success path does.
updateCatch_refetch ==
    [refetch |-> TRUE, alert |-> "Error updating order status", patch |-> FALSE]

\* The catch of updateOrderStatus: the alert, nothing else.
updateCatch ==
    [refetch |-> FALSE, alert |-> "Error updating order status", patch |-> FALSE]

\* The alert that follows `await fetchOrders()` in updateOrderStatus.
afterRefetch(f) == IF f.forUpdate THEN "Order status updated successfully" ELSE Null

\* onChange of an order's <select>: updateOrderStatus(order.id, e.target.value)
\* up to its first await.  The event fires for an option other than the value shown.
UpdateOrderStatus(o, s) ==
    /\ o \in DOMAIN orders
    /\ s \in statusOptions(orders[o])
    /\ s # orders[o]
    /\ AdminInFlight < MaxAdminReq
    /\ puts' = puts (+) SetToBag({updateRequest(o, s)})
    /\ issued' = {Req("PUT /admin/orders/{id}/status", authHeader)}
    /\ alertMsg' = Null
    /\ lastOp' = <<"updateOrderStatus", orders[o], s>>
    /\ UNCHANGED <<adminFrame, orders, orderFetches, beOrders, adminLog>>

\* The continuation of updateOrderStatus after its PUT settled with outcome h.
PutSettled(r, h) ==
    /\ puts' = puts (-) SetToBag({r})
    /\ orderFetches' = IF h.refetch
                       THEN orderFetches (+) SetToBag({NewOrderFetch(TRUE)})
                       ELSE orderFetches
    /\ issued' = IF h.refetch THEN {Req("GET /admin/orders", authHeader)} ELSE {}
    /\ alertMsg' = h.alert
    /\ orders' = IF h.patch /\ r.id \in DOMAIN orders
                 THEN [orders EXCEPT ![r.id] = r.status]
                 ELSE orders
    /\ UNCHANGED adminFrame

\* The backend accepts the PUT and stores the status; then `await fetchOrders()`.
PutOk(r) ==
    /\ BagIn(r, puts)
    /\ beOrders' = [beOrders EXCEPT ![r.id] = r.status]
    /\ adminLog' = [adminLog EXCEPT !.updated = TRUE]
    /\ lastOp' = <<"putOk", r.status, Null>>
    /\ PutSettled(r, updateThen)

\* The PUT fails: the catch of updateOrderStatus.
PutFail(r) ==
    /\ BagIn(r, puts)
    /\ lastOp' = <<"putFail", r.status, Null>>
    /\ PutSettled(r, updateCatch)
    /\ UNCHANGED <<beOrders, adminLog>>

\* Backend: a GET /admin/orders is answered from the orders held now.
ServeOrders(f) ==
    /\ BagIn(f, orderFetches)
    /\ f.phase = "sent"
    /\ orderFetches' = (orderFetches (-) SetToBag({f}))
                          (+) SetToBag({[f EXCEPT !.phase = "answered", !.data = beOrders]})
    /\ issued' = {}
    /\ alertMsg' = Null
    /\ lastOp' = <<"backend", "GET /admin/orders", Null>>
    /\ UNCHANGED <<adminFrame, orders, puts, beOrders, adminLog>>

\* fetchOrders after its GET succeeded: setOrders(response.data).
OrdersOk(f) ==
    /\ BagIn(f, orderFetches)
    /\ f.phase = "answered"
    /\ orders' = f.data
    /\ orderFetches' = orderFetches (-) SetToBag({f})
    /\ issued' = {}
    /\ alertMsg' = afterRefetch(f)
    /\ lastOp' = <<"ordersOk", Null, Null>>
    /\ UNCHANGED <<adminFrame, puts, beOrders, adminLog>>

\* fetchOrders after its GET failed: console.error; the caller goes on.
OrdersFail(f) ==
    /\ BagIn(f, orderFetches)
    /\ orderFetches' = orderFetches (-) SetToBag({f})
    /\ adminLog' = [adminLog EXCEPT !.getFailed = TRUE]
    /\ issued' = {}
    /\ alertMsg' = afterRefetch(f)
    /\ lastOp' = <<"ordersFailed", Null, Null>>
    /\ UNCHANGED <<adminFrame, orders, puts, beOrders>>

\* AdminPanel mounted for an administrator: the [activeTab] effect runs fetchOrders.
InitAdmin ==
    /\ user = "bob" /\ token = "t2" /\ localToken = "t2" /\ authHeader = "t2"
    /\ mePending = ZeroMe /\ loginPending = ZeroLogin
    /\ path = "/admin" /\ expired = {} /\ intended = Null /\ loginDone = TRUE
    /\ issued = pageRequests("/admin", "t2")
    /\ alertMsg = Null
    /\ lastOp = <<"mount", "/admin", Null>>
    /\ CartIdle
    /\ CatalogIdle
    /\ orders = NoOrders
    /\ puts = EmptyBag
    /\ orderFetches = SetToBag({NewOrderFetch(FALSE)})
    /\ beOrders \in [OrderIds -> Statuses]
    /\ adminLog = NoAdminLog
    /\ RegisterIdle

NextAdmin ==
    \/ \E o \in OrderIds, s \in Statuses : UpdateOrderStatus(o, s)
    \/ \E r \in BagToSet(puts) : PutOk(r)
    \/ \E r \in BagToSet(puts) : PutFail(r)
    \/ \E f \in BagToSet(orderFetches) : ServeOrders(f)
    \/ \E f \in BagToSet(orderFetches) : OrdersOk(f)
    \/ \E f \in BagToSet(orderFetches) : OrdersFail(f)

SpecAdmin == InitAdmin /\ [][NextAdmin]_vars

\* ------------------------------------------------------------- admin claims
AdminQuiet == puts = EmptyBag /\ orderFetches = EmptyBag

\* The fetchOrders invocations in a bag that an updateOrderStatus awaits.
ForUpdate(b) == SumOver(b, {f \in BagToSet(b) : f.forUpdate})

\* C12: after a status update succeeded and every request of the console has
\* completed (none of the list fetches having failed), the displayed order list
\* equals the backend's, whatever the number of updates and the order of responses.
C12_RefetchShowsBackend ==
    (AdminQuiet /\ adminLog.updated /\ ~adminLog.getFailed) => orders = beOrders

\* C13: the step that handles a failed PUT shows one error, issues no request,
\* adds no list fetch and leaves the displayed orders as they were; the success
\* message appears only in a step that ends a refetch started by a successful PUT,
\* and such refetches are started by a successful PUT only.
C13_FailedUpdateChangesNothing ==
    [][/\ lastOp'[1] = "putFail" =>
             /\ alertMsg' = "Error updating order status"
             /\ issued' = {}
             /\ orderFetches' = orderFetches
             /\ BagCardinality(puts') = BagCardinality(puts) - 1
             /\ orders' = orders
       /\ alertMsg' = "Order status updated successfully" =>
             /\ lastOp'[1] \in {"ordersOk", "ordersFailed"}
             /\ ForUpdate(orderFetches') = ForUpdate(orderFetches) - 1
       /\ ForUpdate(orderFetches') > ForUpdate(orderFetches) =>
             lastOp'[1] = "putOk"]_vars

C13_Witness == lastOp[1] = "putFail" /\ orders # NoOrders /\ adminLog.updated

\* C15: for every displayed status s of the six and every other status s2 of
\* the six, selecting s2 issues the PUT for s2: the selection is enabled whenever
\* the console may send a request, delivered and cancelled included, and the
\* step puts exactly that update in flight.
C15_NoTransitionGraph ==
    /\ \A o \in DOMAIN orders :
         \A s2 \in {"pending", "confirmed", "preparing", "shipped", "delivered",
                    "cancelled"} \ {orders[o]} :
            AdminInFlight < MaxAdminReq => ENABLED UpdateOrderStatus(o, s2)
    /\ lastOp[1] = "updateOrderStatus" =>
          /\ \E o \in OrderIds : BagIn(updateRequest(o, lastOp[3]), puts)
          /\ issued = {Req("PUT /admin/orders/{id}/status", authHeader)}
          /\ alertMsg = Null

C15_Witness ==
    /\ lastOp[1] = "updateOrderStatus"
    /\ lastOp[2] \in {"delivered", "cancelled"}
    /\ lastOp[3] = "pending"

\* -------------------------------------------------------------- catalog page
\* ProductsPage for a logged-in customer on /products, with the navigation
\* bar's cart count.  On mount two effects run: initData() (POST /init-data,
\* then fetchCategories, then fetchProducts, then setLoading(false)) and the
\* [selectedCategory] effect's fetchProducts('').  The backend answers a GET
\* /products from the catalog it holds at that moment, and the response reaches
\* the client in a later step.
cartPage == <<cartItems, products, cartLoading, fetches, deletes, settled, shownTotal>>
catalogFrame == <<sessionCore, cartPage, adminVars, registerVars, ordersVars>>

\* Backend: GET /products with params {category_id} or {}: the products it lists.
productsOf(categoryId, catalog) ==
    {p \in catalog : categoryId = AllProducts \/ CategoryOf(p) = categoryId}

\* A fetchProducts(categoryId) invocation waiting for its GET /products; awaited
\* marks the one initData() awaits.
NewProductFetch(categoryId, awaited) ==
    [cat |-> categoryId, phase |-> "sent", data |-> {}, awaited |-> awaited]

\* An addToCart that asks for two units.
addToCart_twoUnits(productId) == [product_id |-> productId, quantity |-> 2]

\* The body of the POST /cart that addToCart(productId) sends.
addToCart(productId) == [product_id |-> productId, quantity |-> 1]

\* A button that is never disabled.
canAdd_always(p) == TRUE

\* The add-to-cart button of a listed product: disabled={product.stock_quantity === 0}.
canAdd(p) == Stock(p) # 0

\* Navigation.fetchCartCount: response.data.reduce((sum, item) => sum + item.quantity, 0).
countOf(rows) == SumOver([i \in 1..Len(rows) |-> rows[i].quantity], 1..Len(rows))

\* Backend: the cart after an accepted POST /cart: a new row, or the quantity of
\* the product's row raised.
RowsOf(rows, p) == {i \in 1..Len(rows) : rows[i].product_id = p}
cartAfterAdd(rows, body, id) ==
    IF RowsOf(rows, body.product_id) = {}
    THEN Append(rows, Row(id, body.product_id, body.quantity))
    ELSE LET k == CHOOSE i \in RowsOf(rows, body.product_id) : TRUE
         IN [rows EXCEPT ![k] = [@ EXCEPT !.quantity = @ + body.quantity]]

\* Backend: the POST /cart it accepts: the product exists and is in stock.
accepts(body) == body.product_id \in beProducts /\ Stock(body.product_id) > 0

\* initData() after its POST /init-data settled either way: await fetchCategories().
SeedSettled ==
    /\ initData = "seed"
    /\ initData' = "categories"
    /\ issued' = {Req("GET /categories", authHeader)}
    /\ alertMsg' = Null
    /\ UNCHANGED <<catalogFrame, pageProducts, categories, selectedCategory, pageLoading,
                   productFetches, posts, cartCount, countPending, beCart, nextId>>

\* Backend: POST /init-data stores the sample catalog when it holds none.
SeedOk ==
    /\ SeedSettled
    /\ beProducts' = IF beProducts = {} THEN ProductIds ELSE beProducts
    /\ beCategories' = IF beCategories = {} THEN Categories ELSE beCategories
    /\ catalogLog' = [catalogLog EXCEPT !.seeded = (beProducts = {})]
    /\ lastOp' = <<"seedOk", Null, Null>>

\* POST /init-data fails: console.log('Data might already be initialized').
SeedFail ==
    /\ SeedSettled
    /\ lastOp' = <<"seedFail", Null, Null>>
    /\ UNCHANGED <<beProducts, beCategories, catalogLog>>

\* initData() after fetchCategories() returned: await fetchProducts().
CategoriesSettled ==
    /\ initData = "categories"
    /\ BagCardinality(productFetches) < MaxProductFetch
    /\ initData' = "products"
    /\ productFetches' = productFetches (+) SetToBag({NewProductFetch(AllProducts, TRUE)})
    /\ issued' = {Req("GET /products", authHeader)}
    /\ alertMsg' = Null
    /\ UNCHANGED <<catalogFrame, pageProducts, selectedCategory, pageLoading, posts,
                   cartCount, countPending, beCart, beProducts, nextId, beCategories>>

\* fetchCategories: setCategories(response.data).
CategoriesOk ==
    /\ CategoriesSettled
    /\ categories' = beCategories
    /\ lastOp' = <<"categoriesOk", Null, Null>>
    /\ UNCHANGED catalogLog

\* fetchCategories catch: console.error.
CategoriesFail ==
    /\ CategoriesSettled
    /\ lastOp' = <<"categoriesFailed", Null, Null>>
    /\ catalogLog' = [catalogLog EXCEPT !.getFailed = TRUE]
    /\ UNCHANGED categories

\* Backend: a GET /products is answered from the catalog held now.
ServeProducts(f) ==
    /\ BagIn(f, productFetches)
    /\ f.phase = "sent"
    /\ productFetches' =
          (productFetches (-) SetToBag({f}))
             (+) SetToBag({[f EXCEPT !.phase = "answered",
                                    !.data = productsOf(f.cat, beProducts)]})
    /\ issued' = {}
    /\ alertMsg' = Null
    /\ lastOp' = <<"backend", "GET /products", f.cat>>
    /\ UNCHANGED <<catalogFrame, pageProducts, categories, selectedCategory, pageLoading,
                   initData, posts, cartCount, countPending, beCart, beProducts, nextId,
                   beCategories, catalogLog>>

\* A fetchProducts invocation returns; the one initData() awaits is followed by
\* setLoading(false).
ProductsSettled(f) ==
    /\ BagIn(f, productFetches)
    /\ productFetches' = productFetches (-) SetToBag({f})
    /\ pageLoading' = IF f.awaited THEN FALSE ELSE pageLoading
    /\ initData' = IF f.awaited THEN "done" ELSE initData
    /\ issued' = {}
    /\ alertMsg' = Null
    /\ UNCHANGED <<catalogFrame, categories, selectedCategory, posts, cartCount,
                   countPending, beCart, beProducts, nextId, beCategories>>

\* fetchProducts after its GET succeeded: setProducts(response.data).
ProductsOk(f) ==
    /\ f.phase = "answered"
    /\ ProductsSettled(f)
    /\ pageProducts' = f.data
    /\ lastOp' = <<"productsOk", f.cat, Null>>
    /\ UNCHANGED catalogLog

\* fetchProducts catch: console.error.
ProductsFail(f) ==
    /\ ProductsSettled(f)
    /\ lastOp' = <<"productsFailed", f.cat, Null>>
    /\ catalogLog' = [catalogLog EXCEPT !.getFailed = TRUE]
    /\ UNCHANGED pageProducts

\* A category button (or All Categories) is clicked: setSelectedCategory, and the
\* [selectedCategory] effect runs fetchProducts(selectedCategory) when it changed.
SelectCategory(c) ==
    /\ ~pageLoading
    /\ c \in categories \cup {AllProducts}
    /\ c # selectedCategory
    /\ BagCardinality(productFetches) < MaxProductFetch
    /\ selectedCategory' = c
    /\ productFetches' = productFetches (+) SetToBag({NewProductFetch(c, FALSE)})
    /\ catalogLog' = [catalogLog EXCEPT !.selected = TRUE]
    /\ issued' = {Req("GET /products", authHeader)}
    /\ alertMsg' = Null
    /\ lastOp' = <<"selectCategory", c, Null>>
    /\ UNCHANGED <<catalogFrame, pageProducts, categories, pageLoading, initData, posts,
                   cartCount, countPending, beCart, beProducts, nextId, beCategories>>

\* addToCart(productId) up to its await; via is "ui" for the button of a listed
\* product and "direct" for a call that does not go through the button.
AddToCart(p, via) ==
    /\ via = "ui" => (~pageLoading /\ p \in pageProducts /\ canAdd(p))
    /\ Len(posts) < MaxPost
    /\ posts' = Append(posts, addToCart(p))
    /\ issued' = {Req("POST /cart", authHeader)}
    /\ alertMsg' = Null
    /\ lastOp' = <<"addToCart", p, via>>
    /\ UNCHANGED <<catalogFrame, pageProducts, categories, selectedCategory, pageLoading,
                   initData, productFetches, cartCount, countPending, beCart, beProducts,
                   nextId, beCategories, catalogLog>>

\* The backend accepts the POST /cart: alert('Product added to cart!').
PostOk(k) ==
    /\ k \in 1..Len(posts)
    /\ accepts(posts[k])
    /\ nextId \in ItemIds
    /\ \A i \in 1..Len(cartAfterAdd(beCart, posts[k], nextId)) :
          cartAfterAdd(beCart, posts[k], nextId)[i].quantity \in Quantities
    /\ Len(cartAfterAdd(beCart, posts[k], nextId)) <= MaxRows
    /\ beCart' = cartAfterAdd(beCart, posts[k], nextId)
    /\ nextId' = IF Len(beCart') > Len(beCart) THEN nextId + 1 ELSE nextId
    /\ posts' = RemoveAt(posts, k)
    /\ issued' = {}
    /\ alertMsg' = "Product added to cart!"
    /\ lastOp' = <<"postOk", posts[k].product_id, Null>>
    /\ UNCHANGED <<catalogFrame, pageProducts, categories, selectedCategory, pageLoading,
                   initData, productFetches, cartCount, countPending, beProducts,
                   beCategories, catalogLog>>

\* The POST /cart fails (rejected by the backend, or not delivered): the catch.
PostFail(k) ==
    /\ k \in 1..Len(posts)
    /\ posts' = RemoveAt(posts, k)
    /\ issued' = {}
    /\ alertMsg' = "Error adding to cart"
    /\ lastOp' = <<"postFail", posts[k].product_id, Null>>
    /\ UNCHANGED <<catalogFrame, pageProducts, categories, selectedCategory, pageLoading,
                   initData, productFetches, cartCount, countPending, beCart, beProducts,
                   nextId, beCategories, catalogLog>>

\* fetchCartCount returns: setCartCount(count), or console.error.
CountSettled(ok) ==
    /\ countPending > 0
    /\ countPending' = countPending - 1
    /\ cartCount' = IF ok THEN countOf(beCart) ELSE cartCount
    /\ issued' = {}
    /\ alertMsg' = Null
    /\ lastOp' = <<IF ok THEN "countOk" ELSE "countFailed", Null, Null>>
    /\ catalogLog' = [catalogLog EXCEPT !.getFailed = @ \/ ~ok]
    /\ UNCHANGED <<catalogFrame, pageProducts, categories, selectedCategory, pageLoading,
                   initData, productFetches, posts, beCart, beProducts, nextId,
                   beCategories>>

\* ProductsPage mounted for a logged-in customer whose cart count is being fetched.
InitCatalog ==
    /\ user = "alice" /\ token = "t1" /\ localToken = "t1" /\ authHeader = "t1"
    /\ mePending = ZeroMe /\ loginPending = ZeroLogin
    /\ path = "/products" /\ expired = {} /\ intended = Null /\ loginDone = TRUE
    /\ issued = {Req("POST /init-data", "t1"), Req("GET /products", "t1")}
    /\ alertMsg = Null
    /\ lastOp = <<"mount", "/products", Null>>
    /\ cartItems = <<>> /\ products = EmptyMap /\ cartLoading = TRUE
    /\ fetches = <<>> /\ deletes = ZeroDelete
    /\ settled = NoneSettled /\ shownTotal = <<>>
    /\ beCart = <<>> /\ nextId = 1
    /\ \E seeded \in BOOLEAN :
          /\ beProducts = IF seeded THEN ProductIds ELSE {}
          /\ beCategories = IF seeded THEN Categories ELSE {}
    /\ pageProducts = {}
    /\ categories = {}
    /\ selectedCategory = AllProducts
    /\ pageLoading = TRUE
    /\ initData = "seed"
    /\ productFetches = SetToBag({NewProductFetch(AllProducts, FALSE)})
    /\ posts = <<>>
    /\ cartCount = 0
    /\ countPending = 1
    /\ catalogLog = NoCatalogLog
    /\ AdminIdle
    /\ RegisterIdle

NextCatalog ==
    \/ SeedOk
    \/ SeedFail
    \/ CategoriesOk
    \/ CategoriesFail
    \/ \E f \in BagToSet(productFetches) : ServeProducts(f)
    \/ \E f \in BagToSet(productFetches) : ProductsOk(f)
    \/ \E f \in BagToSet(productFetches) : ProductsFail(f)
    \/ \E c \in Categories \cup {AllProducts} : SelectCategory(c)
    \/ \E p \in ProductIds, via \in {"ui", "direct"} : AddToCart(p, via)
    \/ \E k \in 1..Len(posts) : PostOk(k)
    \/ \E k \in 1..Len(posts) : PostFail(k)
    \/ \E ok \in BOOLEAN : CountSettled(ok)

SpecCatalog == InitCatalog /\ [][NextCatalog]_vars

\* ------------------------------------------- add to cart, over a loaded page
\* The catalog page after loading, listing both products, with any cart and any
\* remaining catalog at the backend, while the navigation bar's count is fetched.
InitAdd ==
    /\ user = "alice" /\ token = "t1" /\ localToken = "t1" /\ authHeader = "t1"
    /\ mePending = ZeroMe /\ loginPending = ZeroLogin
    /\ path = "/products" /\ expired = {} /\ intended = Null /\ loginDone = TRUE
    /\ issued = {}
    /\ alertMsg = Null
    /\ lastOp = <<"render", "/products", Null>>
    /\ cartItems = <<>> /\ products = EmptyMap /\ cartLoading = TRUE
    /\ fetches = <<>> /\ deletes = ZeroDelete
    /\ settled = NoneSettled /\ shownTotal = <<>>
    /\ beCart \in Carts
    /\ nextId = Len(beCart) + 1
    /\ beProducts \in SUBSET ProductIds
    /\ beCategories = Categories
    /\ pageProducts = ProductIds
    /\ categories = Categories
    /\ selectedCategory = AllProducts
    /\ pageLoading = FALSE
    /\ initData = "done"
    /\ productFetches = EmptyBag
    /\ posts = <<>>
    /\ cartCount = 0
    /\ countPending = 1
    /\ catalogLog = NoCatalogLog
    /\ AdminIdle
    /\ RegisterIdle

NextAdd ==
    \/ \E p \in ProductIds, via \in {"ui", "direct"} : AddToCart(p, via)
    \/ \E k \in 1..Len(posts) : PostOk(k)
    \/ \E k \in 1..Len(posts) : PostFail(k)
    \/ \E ok \in BOOLEAN : CountSettled(ok)

SpecAdd == InitAdd /\ [][NextAdd]_vars

\* ------------------------------------------------------------ catalog claims
LocalViewUnchanged ==
    /\ pageProducts' = pageProducts
    /\ cartCount' = cartCount
    /\ categories' = categories
    /\ selectedCategory' = selectedCategory

\* C11: each addToCart(productId) puts exactly one POST /cart in flight, with
\* that product_id and quantity 1; a failed request shows one alert; and neither
\* the call, nor the success, nor the failure changes the listed products or the
\* navigation bar's cart count.
C11_AddToCartIsOnePost ==
    [][/\ lastOp'[1] = "addToCart" =>
             /\ posts' = Append(posts, [product_id |-> lastOp'[2], quantity |-> 1])
             /\ issued' = {Req("POST /cart", authHeader)}
             /\ alertMsg' = Null
             /\ LocalViewUnchanged
       /\ lastOp'[1] = "postFail" =>
             /\ alertMsg' = "Error adding to cart"
             /\ Len(posts') = Len(posts) - 1
             /\ issued' = {}
             /\ LocalViewUnchanged
       /\ lastOp'[1] = "postOk" =>
             /\ alertMsg' = "Product added to cart!"
             /\ Len(posts') = Len(posts) - 1
             /\ issued' = {}
             /\ LocalViewUnchanged]_vars

C11_Witness ==
    /\ lastOp[1] = "postFail"
    /\ alertMsg = "Error adding to cart"
    /\ beCart # <<>>
    /\ cartCount = 0

\* C17: the button of a listed product whose stock_quantity is 0 is disabled, so
\* no addToCart for it starts from the button; and when a POST /cart for such a
\* product was sent anyway and is rejected, an alert is shown and neither the
\* backend's cart nor the cart count changes.
C17_OutOfStockIsBlocked ==
    /\ [](/\ \A p \in pageProducts : Stock(p) = 0 => ~ENABLED AddToCart(p, "ui")
          /\ (lastOp[1] = "addToCart" /\ lastOp[3] = "ui") => Stock(lastOp[2]) # 0)
    /\ [][(lastOp'[1] = "postFail" /\ Stock(lastOp'[2]) = 0) =>
             /\ alertMsg' = "Error adding to cart"
             /\ beCart' = beCart
             /\ cartCount' = cartCount]_vars
    /\ [][lastOp'[1] = "postOk" => Stock(lastOp'[2]) # 0]_vars

C17_Witness ==
    /\ lastOp[1] = "postFail"
    /\ Stock(lastOp[2]) = 0
    /\ lastOp[2] \in pageProducts
    /\ alertMsg # Null

CatalogQuiet == initData = "done" /\ productFetches = EmptyBag

\* C16: once every request of the catalog page has completed (no category
\* chosen, no fetch failed), the categories and products shown are the backend's,
\* whether the seed call succeeded or failed and whenever it was served.
C16_ViewIndependentOfSeed ==
    (CatalogQuiet /\ ~catalogLog.selected /\ ~catalogLog.getFailed) =>
        /\ pageProducts = beProducts
        /\ categories = beCategories

\* C20: whenever no product request is in flight and none has failed, the
\* products shown are the backend's list for the selected category (all products
\* when none is selected); the backend's catalog did not change meanwhile.
C20_ShownMatchesSelection ==
    (CatalogQuiet /\ ~catalogLog.getFailed /\ ~catalogLog.seeded) =>
        pageProducts = productsOf(selectedCategory, beProducts)

\* ------------------------------------------------------------- registration
\* RegisterPage.handleRegister: setLoading(true); POST /auth/register; then POST
\* /auth/login; then login(...) and navigate('/products'); one catch around all
\* of it; setLoading(false) after the try.  The submit button is disabled while
\* loading, so one submission is under way at a time.
registerFrame == <<cartVars, catalogVars, adminVars, ordersVars>>

\* A catch that leaves the form loading.
handleRegisterCatch_stillLoading ==
    [alert |-> "Registration failed", form |-> [FormIdle EXCEPT !.loading = TRUE]]

\* handleRegister's catch and the setLoading(false) after it.
handleRegisterCatch == [alert |-> "Registration failed", form |-> FormIdle]

\* handleRegister up to its first await, for the form filled in with c's email.
HandleRegister(c) ==
    /\ path = "/register"
    /\ ~registerForm.loading
    /\ registerForm.stage = "idle"
    /\ registerForm' = [loading |-> TRUE, stage |-> "register", email |-> c]
    /\ issued' = {}
    /\ alertMsg' = Null
    /\ lastOp' = <<"handleRegister", c, Null>>
    /\ UNCHANGED <<sessionCore, registerFrame>>

\* POST /auth/register succeeded: the POST /auth/login for the same email follows.
RegisterOk ==
    /\ registerForm.stage = "register"
    /\ registerForm' = [registerForm EXCEPT !.stage = "login"]
    /\ issued' = {}
    /\ alertMsg' = Null
    /\ lastOp' = <<"registerOk", registerForm.email, Null>>
    /\ UNCHANGED <<sessionCore, registerFrame>>

\* Either POST of handleRegister failed: the catch, then setLoading(false).
RegisterFail ==
    /\ registerForm.stage \in {"register", "login"}
    /\ registerForm' = handleRegisterCatch.form
    /\ issued' = {}
    /\ alertMsg' = handleRegisterCatch.alert
    /\ lastOp' = <<"registerFail", registerForm.email, registerForm.stage>>
    /\ UNCHANGED <<sessionCore, registerFrame>>

\* The POST /auth/login of handleRegister answered {user, access_token: t}:
\* login(user, token); navigate('/products'); setLoading(false).
RegisterLoginOk(t) ==
    /\ registerForm.stage = "login"
    /\ t \notin expired
    /\ Identity(t) = registerForm.email
    /\ effectRuns(token, t, FALSE) => MeTotal < MaxMe
    /\ LET s0 == login(registerForm.email, t)
           s == tokenEffect(s0, token, FALSE)
       IN /\ Apply(s)
          /\ mePending' = meIssued(mePending, s, token, FALSE)
          /\ path' = Resolve("/products", s.user)
          /\ issued' = fetchCartCount(s0.user, s0.authHeader)
                         \cup mountRequests(path, path', s0.authHeader)
                         \cup meRequest(s, token, FALSE)
    /\ registerForm' = FormIdle
    /\ alertMsg' = Null
    /\ lastOp' = <<"registerLogin", registerForm.email, t>>
    /\ loginDone' = TRUE
    /\ UNCHANGED <<loginPending, expired, intended, registerFrame>>

\* The register page opened by a browser that may hold a token of an earlier visit.
InitRegister ==
    /\ \E stored \in TokenOrNull : LoadPage(stored, "/register")
    /\ lastOp = <<"init", "/register", Null>>
    /\ expired = {}
    /\ loginDone = FALSE
    /\ CartIdle
    /\ CatalogIdle
    /\ AdminIdle
    /\ RegisterIdle

NextRegister ==
    \/ \E c \in Users : HandleRegister(c)
    \/ RegisterOk
    \/ RegisterFail
    \/ \E t \in Tokens : RegisterLoginOk(t)
    \/ \E r \in Routes : Navigate(r)
    \/ ClickLogout
    \/ \E t \in Tokens : MeOk(t)
    \/ \E t \in Tokens : MeFail(t)
    \/ \E t \in Tokens : Expire(t)

SpecRegister == InitRegister /\ [][NextRegister]_vars

\* -------------------------------------------------------- registration claim
SessionUnchanged == UNCHANGED <<user, token, localToken, authHeader, path, mePending>>

\* C26: the POST /auth/login of the registration flow starts only in the step
\* that receives the success of POST /auth/register; login() and the navigation
\* to /products happen exactly in the step where that login succeeds; a failure
\* of either request shows one alert and leaves the session as it was; and every
\* step that ends the handler leaves the form's loading flag false.
C26_RegistrationFlow ==
    [][/\ (registerForm'.stage = "login" /\ registerForm.stage # "login") =>
             (lastOp'[1] = "registerOk" /\ registerForm.stage = "register")
       /\ lastOp'[1] = "registerLogin" =>
             /\ registerForm.stage = "login"
             /\ user' = lastOp'[2] /\ token' = lastOp'[3]
             /\ localToken' = lastOp'[3] /\ authHeader' = lastOp'[3]
             /\ path' = Resolve("/products", user')
             /\ alertMsg' = Null
       /\ lastOp'[1] \in {"handleRegister", "registerOk", "registerFail"} => SessionUnchanged
       /\ lastOp'[1] = "registerFail" => alertMsg' = "Registration failed"
       /\ lastOp'[1] \in {"handleRegister", "registerOk"} => alertMsg' = Null
       /\ lastOp'[1] \in {"registerFail", "registerLogin"} =>
             (~registerForm'.loading /\ registerForm'.stage = "idle")]_vars

C26_Witness ==
    /\ lastOp[1] = "registerFail"
    /\ lastOp[3] = "login"
    /\ ~registerForm.loading
    /\ user = Null

\* ------------------------------------------------------ durable token claim
\* C24: localStorage['token'] is written only by login and removed only by the
\* Logout button or by a failed /auth/me; a page reload, a navigation, a
\* submitted or failed login, a successful /auth/me and a token expiring at
\* the backend leave it as it was.
C24_DurableTokenWriters ==
    [][/\ (localToken' # localToken /\ localToken' # Null) => lastOp'[1] = "login"
       /\ (localToken' # localToken /\ localToken' = Null) =>
             lastOp'[1] \in {"logout", "meFail"}
       /\ lastOp'[1] \in {"reload", "navigate", "handleLogin", "loginFail", "meOk",
                          "expire"} => localToken' = localToken]_vars

C24_Witness ==
    /\ lastOp[1] = "reload"
    /\ localToken # Null
    /\ loginDone
    /\ user = Null

\* ------------------------------------------------------------- reload claim
\* C23: when the page is reloaded at an authenticated route (/admin counting
\* for an administrator only) and the /auth/me of that reload succeeds next,
\* the client is then rendering that same route.
C23_ReloadKeepsRoute ==
    [][(/\ lastOp[1] = "reload"
        /\ lastOp[2] \in {"/products", "/cart", "/orders", "/admin"}
        /\ lastOp'[1] = "meOk"
        /\ lastOp[2] = "/admin" => RoleOf(user') = "admin")
          => path' = lastOp[2]]_vars

\* ------------------------------------------- mutate, then refetch: both pages
\* The cart page and the admin console, each from its mount on, with a backend
\* that changes only through this client's own DELETE and PUT requests.
InitMutate == InitCart \/ InitAdmin

NextMutate ==
    \/ \E k \in 1..Len(fetches) : ServeCart(k)
    \/ \E k \in 1..Len(fetches) : CartOk(k)
    \/ \E k \in 1..Len(fetches) : CartFail(k)
    \/ \E k \in 1..Len(fetches) : \E i \in 1..Len(fetches[k].items) : ProductOk(k, i)
    \/ \E k \in 1..Len(fetches) : \E i \in 1..Len(fetches[k].items) : ProductFail(k, i)
    \/ \E id \in ItemIds : RemoveFromCart(id)
    \/ \E id \in ItemIds : DeleteOk(id)
    \/ \E id \in ItemIds : DeleteFail(id)
    \/ NextAdmin

SpecMutate == InitMutate /\ [][NextMutate]_vars

\* C21: a GET /cart refetch starts only in the step that receives the success
\* of a DELETE, and a GET /admin/orders refetch only in the step that receives
\* the success of a PUT, that mutation being no longer in flight; and the
\* displayed cart items and order list change only by taking the data of an
\* answered fetch.
C21_MutateThenRefetch ==
    [][/\ (Len(fetches') > Len(fetches) \/ Req("GET /cart", authHeader) \in issued') =>
             /\ lastOp'[1] = "deleteOk"
             /\ deletes[lastOp'[2]] > 0
             /\ deletes' = [deletes EXCEPT ![lastOp'[2]] = @ - 1]
             /\ Len(fetches') = Len(fetches) + 1
       /\ (BagCardinality(orderFetches') > BagCardinality(orderFetches)
             \/ Req("GET /admin/orders", authHeader) \in issued') =>
             /\ lastOp'[1] = "putOk"
             /\ BagCardinality(puts') = BagCardinality(puts) - 1
             /\ BagCardinality(orderFetches') = BagCardinality(orderFetches) + 1
       /\ cartItems' # cartItems =>
             \E k \in 1..Len(fetches) :
                fetches[k].phase = "answered" /\ cartItems' = fetches[k].items
       /\ orders' # orders =>
             \E f \in BagToSet(orderFetches) : f.phase = "answered" /\ orders' = f.data]_vars

C21_Witness ==
    /\ lastOp[1] = "putOk"
    /\ orders # beOrders
    /\ BagIn(NewOrderFetch(TRUE), orderFetches)

\* --------------------------------------------------------- cart count claim
\* C25: while a user is logged in, no request is in flight and no fetch has
\* failed, the navigation bar's cart count is the sum of quantity over the rows
\* of the backend cart, after a successful addToCart too.
C25_CartCountMatchesBackend ==
    (/\ user # Null
     /\ posts = <<>> /\ countPending = 0 /\ productFetches = EmptyBag
     /\ ~catalogLog.getFailed)
        => cartCount = countOf(beCart)

\* ------------------------------------------------------- the views' load paths
\* OrdersPage: useEffect(() => fetchOrders(), []); fetchOrders sets the orders
\* on success, logs on failure, and calls setLoading(false) after the try/catch.
OrderLists == {<<>>, <<"o1">>}               \* what GET /orders may answer

\* setLoading(false) placed inside the try: not reached when the GET failed.
setLoadingAfter_onlyOnSuccess(ok) == ~ok

\* The loading flag after fetchOrders' try/catch, whether the GET succeeded or not.
setLoadingAfter(ok) == FALSE

loadFrame == <<sessionCore, cartVars, catalogVars, adminVars, registerVars>>

\* fetchOrders returns after its GET /orders succeeded with data, or failed.
MyOrdersSettled(ok, data) ==
    /\ ordersPending > 0
    /\ ordersPending' = ordersPending - 1
    /\ myOrders' = IF ok THEN data ELSE myOrders
    /\ ordersLoading' = setLoadingAfter(ok)
    /\ issued' = {}
    /\ alertMsg' = Null
    /\ lastOp' = <<IF ok THEN "myOrdersOk" ELSE "myOrdersFailed", Null, Null>>
    /\ UNCHANGED loadFrame

\* OrdersPage mounted for a logged-in customer.
InitOrders ==
    /\ user = "alice" /\ token = "t1" /\ localToken = "t1" /\ authHeader = "t1"
    /\ mePending = ZeroMe /\ loginPending = ZeroLogin
    /\ path = "/orders" /\ expired = {} /\ intended = Null /\ loginDone = TRUE
    /\ issued = pageRequests("/orders", "t1")
    /\ alertMsg = Null
    /\ lastOp = <<"mount", "/orders", Null>>
    /\ CartIdle
    /\ CatalogIdle
    /\ AdminIdle
    /\ registerForm = FormIdle
    /\ myOrders = <<>>
    /\ ordersLoading = TRUE
    /\ ordersPending = 1

\* The responses to the requests the three views issue while they load.
LoadResponses ==
    \/ \E k \in 1..Len(fetches) : ServeCart(k)
    \/ \E k \in 1..Len(fetches) : CartOk(k)
    \/ \E k \in 1..Len(fetches) : CartFail(k)
    \/ \E k \in 1..Len(fetches) : \E i \in 1..Len(fetches[k].items) : ProductOk(k, i)
    \/ \E k \in 1..Len(fetches) : \E i \in 1..Len(fetches[k].items) : ProductFail(k, i)
    \/ SeedOk
    \/ SeedFail
    \/ CategoriesOk
    \/ CategoriesFail
    \/ \E f \in BagToSet(productFetches) : ServeProducts(f)
    \/ \E f \in BagToSet(productFetches) : ProductsOk(f)
    \/ \E f \in BagToSet(productFetches) : ProductsFail(f)
    \/ \E ok \in BOOLEAN, data \in OrderLists : MyOrdersSettled(ok, data)

InitLoad == InitCart \/ InitCatalog \/ InitOrders

NextLoad == LoadResponses

\* Every request is answered in the end, by a success or by a failure.
SpecLoad == InitLoad /\ [][NextLoad]_vars /\ WF_vars(LoadResponses)

\* ------------------------------------------------------------ loading claim
LoadingEnds ==
    /\ path = "/cart" => <>[](~cartLoading)
    /\ path = "/products" => <>[](~pageLoading)
    /\ path = "/orders" => <>[](~ordersLoading)

\* The product lookups that had not answered when fetchCart returned.
HungLookups == {i \in DOMAIN settled.status : settled.status[i] = "pending"}

====
